---- MODULE Spec2Model ----
(***************************************************************************)
(* Model of pong_conv/main.go: the foreground goroutine (func main), the   *)
(* training goroutine it starts, the trainLock mutex they share, the       *)
(* checkpoint file and the construction of the policy network.             *)
(***************************************************************************)
EXTENDS Integers, Sequences, FiniteSets, TLC

\* ------------------------------------------------------------------------
\* Program constants and model bounds
\* ------------------------------------------------------------------------

\* main.go:26
ParallelEnvs == 8

\* main.go:27 (100000 in the program; scaled down)
BatchSteps == 3

\* largest NumSteps() of one rollout set
MaxRolloutSteps == 2

\* rollout sets with NumSteps() = 0 that one batch may contain
MaxZeroRollouts == 1

\* iterations of the training loop that one run of the process may start
MaxBatches == 2

\* runs of the process (the operator starts it again after it has ended)
MaxRuns == 2

\* number of parameter tensors of the policy (anynet.AllParameters(policy))
NumParams == 2

\* main.go:34
NetworkSaveFile == "trained_policy"

\* another name in the same directory, which the program never uses
OtherFile == "other_file"

Keys == {NetworkSaveFile, OtherFile}

\* type name under which serializer registers anyrnn.Stack
StackTag == "anyrnn.Stack"

\* architecture built from the markup of loadOrCreateNetwork, and one that
\* only an older checkpoint can hold
TemplateArch == "stacker-conv-vanilla-fc6"
LegacyArch == "legacy"

RECURSIVE SumSeq(_)
SumSeq(s) == IF s = <<>> THEN 0 ELSE Head(s) + SumSeq(Tail(s))

ConstSeq(n, v) == [k \in 1..n |-> v]

\* ------------------------------------------------------------------------
\* State
\* ------------------------------------------------------------------------
VARIABLES
  run,         \* number of the current run of the process
  proc,        \* "running", "exited" (main returned), "panicked"
  store,       \* the files: key -> content
  persisted,   \* history: the network the last successful SaveAny was given
  fpc,         \* position of the foreground goroutine (func main)
  i,           \* loop variable of the environment creation loop
  sess,        \* gym session of each slot: "none", "open", "closed"
  envs,        \* the slice envs
  deferred,    \* stack of deferred client.Close() calls of main
  exitKind,    \* why main is unwinding: "none", "return", "panic"
  policy,      \* the policy network (shared by both goroutines)
  loaded,      \* history: loadOrCreateNetwork took the load branch
  initParams,  \* history: the parameter values policy was created with
  interrupted, \* the foreground has received from rip's channel
  saveBuf,     \* parameter values SaveAny has read so far
  trainLock,   \* holder of the mutex: "free", "train", "main"
  tpc,         \* position of the training goroutine
  batchIdx,    \* loop variable of the training loop
  rollouts,    \* NumSteps() of each rollout set gathered in this batch
  steps,       \* the local variable steps
  r,           \* the packed batch
  grad,        \* the gradient of this iteration
  applyIdx,    \* parameters AddToVars has already updated
  produced,    \* history: gradients trpo.Run has returned in this run
  applied,     \* history: completed grad.AddToVars() calls in this run
  rolloutErr,  \* history: roller.Rollout returned an error
  netpc,       \* position inside loadOrCreateNetwork, when it is followed
  net,         \* the layers of the feature extractor built from the markup
  li           \* layers setupVisionLayers has gone through

convVars  == <<netpc, net, li>>
procVars  == <<run, proc, store, persisted>>
mainVars  == <<fpc, i, sess, envs, deferred, exitKind, interrupted, saveBuf>>
netVars   == <<policy, loaded, initParams>>
trainVars == <<tpc, batchIdx, rollouts, steps, r, grad, applyIdx, produced,
               applied, rolloutErr>>
vars == <<procVars, mainVars, netVars, trainVars, trainLock, convVars>>

\* ------------------------------------------------------------------------
\* Values
\* ------------------------------------------------------------------------
NoPolicy == [arch |-> "none", params |-> <<>>]
NoGrad == <<>>
NoBatch == [numSteps |-> 0, sets |-> <<>>, packed |-> FALSE]

FileMissing == [tag |-> "missing", arch |-> "", params |-> <<>>]
FileCorrupt == [tag |-> "corrupt", arch |-> "", params |-> <<>>]

\* serializer.SaveAny: the type name of the object followed by its data
Serialize(stack) ==
  [tag |-> StackTag, arch |-> stack.arch, params |-> stack.params]

\* serializer.LoadAny into an anyrnn.Stack: fails on a missing file and on
\* content that is not a serialized anyrnn.Stack
LoadErr(content) == content.tag # StackTag
Deserialize(content) == [arch |-> content.arch, params |-> content.params]

\* the network of the fresh branch of loadOrCreateNetwork
FreshNetwork == [arch |-> TemplateArch, params |-> ConstSeq(NumParams, 0)]

\* must that returns whatever err is
mustIgnore(err) == FALSE

\* must (main.go:233-237): panics exactly when err is not nil
must(err) == err

\* anyrl.PackRolloutSets: joins the rollout sets, in order
PackRolloutSets(sets) ==
  [numSteps |-> SumSeq(sets), sets |-> sets, packed |-> TRUE]

\* a network that an earlier version of the program has saved
LegacyNetwork == [arch |-> LegacyArch, params |-> ConstSeq(NumParams, 1)]

\* what the first run can find under NetworkSaveFile: nothing, a file that is
\* no checkpoint, or the checkpoint of a network saved earlier
InitCheckpoints ==
  { [net |-> NoPolicy, file |-> FileMissing],
    [net |-> NoPolicy, file |-> FileCorrupt],
    [net |-> LegacyNetwork, file |-> Serialize(LegacyNetwork)] }

\* ------------------------------------------------------------------------
\* Start of a run
\* ------------------------------------------------------------------------
Init ==
  /\ run = 1
  /\ proc = "running"
  /\ \E c \in InitCheckpoints :
       /\ store = [k \in Keys |->
                    IF k = NetworkSaveFile THEN c.file ELSE FileMissing]
       /\ persisted = c.net
  /\ fpc = "make"
  /\ i = 0
  /\ sess = [s \in 1..ParallelEnvs |-> "none"]
  /\ envs = <<>>
  /\ deferred = <<>>
  /\ exitKind = "none"
  /\ policy = NoPolicy
  /\ loaded = FALSE
  /\ initParams = <<>>
  /\ interrupted = FALSE
  /\ saveBuf = <<>>
  /\ trainLock = "free"
  /\ tpc = "idle"
  /\ batchIdx = 0
  /\ rollouts = <<>>
  /\ steps = 0
  /\ r = NoBatch
  /\ grad = NoGrad
  /\ applyIdx = 0
  /\ produced = 0
  /\ applied = 0
  /\ rolloutErr = FALSE
  /\ netpc = "call"
  /\ net = <<>>
  /\ li = 0

\* ------------------------------------------------------------------------
\* Foreground goroutine: func main
\* ------------------------------------------------------------------------

\* main.go:45-50: gym.Make, must(err), defer client.Close()
MainMake ==
  /\ proc = "running" /\ fpc = "make"
  /\ \E err \in BOOLEAN :
       /\ sess' = [sess EXCEPT ![i + 1] = IF err THEN "none" ELSE "open"]
       /\ IF must(err)
         THEN /\ fpc' = "defers" /\ exitKind' = "panic"
              /\ UNCHANGED deferred
         ELSE /\ deferred' = <<i + 1>> \o deferred
              /\ fpc' = "gymenv"
              /\ UNCHANGED exitKind
  /\ UNCHANGED <<procVars, i, envs, interrupted, saveBuf, netVars, trainVars,
                 trainLock,
                 convVars>>

\* MainGymEnv with one PreprocessEnv, allocated before the loop, wrapped
\* around every env
MainGymEnvSharedPre ==
  /\ proc = "running" /\ fpc = "gymenv"
  /\ \E err \in BOOLEAN :
       IF must(err)
         THEN /\ fpc' = "defers" /\ exitKind' = "panic"
              /\ UNCHANGED <<i, envs>>
         ELSE /\ envs' = Append(envs, [client |-> i + 1, pre |-> 1,
                                       valid |-> ~err])
              /\ i' = i + 1
              /\ fpc' = IF i + 1 < ParallelEnvs THEN "make" ELSE "load"
              /\ UNCHANGED exitKind
  /\ UNCHANGED <<procVars, sess, deferred, interrupted, saveBuf, netVars,
                 trainVars, trainLock,
                 convVars>>

\* main.go:52-57: anyrl.GymEnv, must(err), append, i++ and the loop test;
\* &PreprocessEnv{...} allocates a new preprocessor in every iteration
MainGymEnv ==
  /\ proc = "running" /\ fpc = "gymenv"
  /\ \E err \in BOOLEAN :
       IF must(err)
         THEN /\ fpc' = "defers" /\ exitKind' = "panic"
              /\ UNCHANGED <<i, envs>>
         ELSE /\ envs' = Append(envs, [client |-> i + 1, pre |-> i + 1,
                                       valid |-> ~err])
              /\ i' = i + 1
              /\ fpc' = IF i + 1 < ParallelEnvs THEN "make" ELSE "load"
              /\ UNCHANGED exitKind
  /\ UNCHANGED <<procVars, sess, deferred, interrupted, saveBuf, netVars,
                 trainVars, trainLock,
                 convVars>>

\* loadOrCreateNetwork that loads from another file name than SaveAny
\* writes
loadOrCreateNetworkOtherKey(files) ==
  IF ~LoadErr(files[OtherFile])
    THEN [net |-> Deserialize(files[OtherFile]), fromFile |-> TRUE]
    ELSE [net |-> FreshNetwork, fromFile |-> FALSE]

\* main.go:147-179: loadOrCreateNetwork: the network, and which branch
\* returned it
loadOrCreateNetwork(files) ==
  IF ~LoadErr(files[NetworkSaveFile])
    THEN [net |-> Deserialize(files[NetworkSaveFile]), fromFile |-> TRUE]
    ELSE [net |-> FreshNetwork, fromFile |-> FALSE]

\* MainLoadPolicy with the error of LoadAny passed to must
MainLoadPolicyMust ==
  /\ proc = "running" /\ fpc = "load"
  /\ IF must(LoadErr(store[NetworkSaveFile]))
       THEN /\ fpc' = "defers" /\ exitKind' = "panic"
            /\ UNCHANGED netVars
       ELSE /\ policy' = loadOrCreateNetwork(store).net
            /\ loaded' = loadOrCreateNetwork(store).fromFile
            /\ initParams' = policy'.params
            /\ fpc' = "start"
            /\ UNCHANGED exitKind
  /\ UNCHANGED <<procVars, i, sess, envs, deferred, interrupted, saveBuf,
                 trainVars, trainLock,
                 convVars>>

\* main.go:60: policy := loadOrCreateNetwork(creator)
MainLoadPolicy ==
  /\ proc = "running" /\ fpc = "load"
  /\ policy' = loadOrCreateNetwork(store).net
  /\ loaded' = loadOrCreateNetwork(store).fromFile
  /\ initParams' = policy'.params
  /\ fpc' = "start"
  /\ UNCHANGED <<procVars, i, sess, envs, deferred, exitKind, interrupted,
                 saveBuf, trainVars, trainLock,
                 convVars>>

\* main.go:61-101,136: roller, trpo, trainLock and the go statement
MainStartTraining ==
  /\ proc = "running" /\ fpc = "start"
  /\ tpc' = "loop"
  /\ fpc' = "wait"
  /\ UNCHANGED <<procVars, i, sess, envs, deferred, exitKind, interrupted,
                 saveBuf, netVars, batchIdx, rollouts, steps, r, grad,
                 applyIdx, produced, applied, rolloutErr, trainLock,
                 convVars>>

\* main.go:138-139: <-rip.NewRIP().Chan() returns when the signal arrives
MainReceiveSignal ==
  /\ proc = "running" /\ fpc = "wait"
  /\ interrupted' = TRUE
  /\ fpc' = "lock"
  /\ UNCHANGED <<procVars, i, sess, envs, deferred, exitKind, saveBuf,
                 netVars, trainVars, trainLock,
                 convVars>>

\* main.go:143: trainLock.Lock()
MainLock ==
  /\ proc = "running" /\ fpc = "lock"
  /\ trainLock = "free"
  /\ trainLock' = "main"
  /\ fpc' = "save"
  /\ saveBuf' = <<>>
  /\ UNCHANGED <<procVars, i, sess, envs, deferred, exitKind, interrupted,
                 netVars, trainVars,
                 convVars>>

\* main.go:144: SaveAny encodes the policy, one parameter after the other
MainSaveRead ==
  /\ proc = "running" /\ fpc = "save"
  /\ Len(saveBuf) < NumParams
  /\ saveBuf' = Append(saveBuf, policy.params[Len(saveBuf) + 1])
  /\ UNCHANGED <<procVars, fpc, i, sess, envs, deferred, exitKind,
                 interrupted, netVars, trainVars, trainLock,
                 convVars>>

\* MainSaveWrite with trainLock.Unlock() called after the save
MainSaveWriteUnlock ==
  /\ proc = "running" /\ fpc = "save"
  /\ Len(saveBuf) = NumParams
  /\ \E err \in BOOLEAN :
       IF must(err)
         THEN /\ \E c \in {store[NetworkSaveFile], FileCorrupt} :
                   store' = [store EXCEPT ![NetworkSaveFile] = c]
              /\ exitKind' = "panic"
              /\ UNCHANGED persisted
         ELSE /\ store' = [store EXCEPT ![NetworkSaveFile] =
                     Serialize([arch |-> policy.arch, params |-> saveBuf])]
              /\ exitKind' = "return"
              /\ persisted' = policy
  /\ fpc' = "defers"
  /\ trainLock' = "free"
  /\ UNCHANGED <<run, proc, i, sess, envs, deferred, interrupted, saveBuf,
                 netVars, trainVars, convVars>>

\* main.go:144-145: SaveAny writes the file; must(err); main returns
MainSaveWrite ==
  /\ proc = "running" /\ fpc = "save"
  /\ Len(saveBuf) = NumParams
  /\ \E err \in BOOLEAN :
       IF must(err)
         THEN /\ \E c \in {store[NetworkSaveFile], FileCorrupt} :
                   store' = [store EXCEPT ![NetworkSaveFile] = c]
              /\ exitKind' = "panic"
              /\ UNCHANGED persisted
         ELSE /\ store' = [store EXCEPT ![NetworkSaveFile] =
                     Serialize([arch |-> policy.arch, params |-> saveBuf])]
              /\ exitKind' = "return"
              /\ persisted' = policy
  /\ fpc' = "defers"
  /\ UNCHANGED <<run, proc, i, sess, envs, deferred, interrupted, saveBuf,
                 netVars, trainVars, trainLock,
                 convVars>>

\* main.go:50: one deferred client.Close() runs while main unwinds
MainDeferClose ==
  /\ proc = "running" /\ fpc = "defers"
  /\ deferred # <<>>
  /\ sess' = [sess EXCEPT ![Head(deferred)] = "closed"]
  /\ deferred' = Tail(deferred)
  /\ UNCHANGED <<procVars, fpc, i, envs, exitKind, interrupted, saveBuf,
                 netVars, trainVars, trainLock,
                 convVars>>

\* main.go:145 (or the panic of must): the process ends once main is unwound
MainExit ==
  /\ proc = "running" /\ fpc = "defers"
  /\ deferred = <<>>
  /\ proc' = IF exitKind = "panic" THEN "panicked" ELSE "exited"
  /\ fpc' = "done"
  /\ UNCHANGED <<run, store, persisted, i, sess, envs, deferred, exitKind,
                 interrupted, saveBuf, netVars, trainVars, trainLock,
                 convVars>>

\* ------------------------------------------------------------------------
\* Training goroutine (main.go:101-136)
\* ------------------------------------------------------------------------

\* the update trpo.Run returns: one tensor per parameter
Gradient == ConstSeq(NumParams, 1)

ZeroRollouts == Cardinality({k \in DOMAIN rollouts : rollouts[k] = 0})

\* NumSteps() of the rollout set a call of roller.Rollout may return
RolloutSizes ==
  {n \in 0..MaxRolloutSteps : n = 0 => ZeroRollouts < MaxZeroRollouts}

\* main.go:102-107: top of an iteration (the loop has no exit); rollouts and
\* steps are declared
TrainBeginBatch ==
  /\ proc = "running" /\ tpc = "loop"
  /\ batchIdx < MaxBatches
  /\ rollouts' = <<>>
  /\ steps' = 0
  /\ tpc' = "gather"
  /\ UNCHANGED <<procVars, mainVars, netVars, batchIdx, r, grad, applyIdx,
                 produced, applied, rolloutErr, trainLock,
                 convVars>>

\* TrainGatherTest with <= in place of <
TrainGatherTestLeq ==
  /\ proc = "running" /\ tpc = "gather"
  /\ tpc' = IF steps <= BatchSteps THEN "rollout" ELSE "pack"
  /\ UNCHANGED <<procVars, mainVars, netVars, batchIdx, rollouts, steps, r,
                 grad, applyIdx, produced, applied, rolloutErr, trainLock,
                 convVars>>

\* main.go:108: for steps < BatchSteps
TrainGatherTest ==
  /\ proc = "running" /\ tpc = "gather"
  /\ tpc' = IF steps < BatchSteps THEN "rollout" ELSE "pack"
  /\ UNCHANGED <<procVars, mainVars, netVars, batchIdx, rollouts, steps, r,
                 grad, applyIdx, produced, applied, rolloutErr, trainLock,
                 convVars>>

\* TrainRollout with the error logged instead of passed to must
TrainRolloutErrIgnored ==
  /\ proc = "running" /\ tpc = "rollout"
  /\ \E err \in BOOLEAN :
       IF err
         THEN /\ rolloutErr' = TRUE
              /\ UNCHANGED <<steps, rollouts>>
         ELSE /\ \E n \in RolloutSizes :
                   /\ steps' = steps + n
                   /\ rollouts' = Append(rollouts, n)
              /\ UNCHANGED rolloutErr
  /\ tpc' = "gather"
  /\ UNCHANGED <<procVars, mainVars, netVars, batchIdx, r, grad, applyIdx,
                 produced, applied, trainLock,
                 convVars>>

\* TrainRollout that does not add NumSteps() of the rollout set to steps
TrainRolloutNoCount ==
  /\ proc = "running" /\ tpc = "rollout"
  /\ \E err \in BOOLEAN :
       IF must(err)
         THEN /\ proc' = "panicked"
              /\ rolloutErr' = TRUE
              /\ UNCHANGED <<rollouts, tpc>>
         ELSE /\ \E n \in RolloutSizes : rollouts' = Append(rollouts, n)
              /\ tpc' = "gather"
              /\ UNCHANGED <<proc, rolloutErr>>
  /\ UNCHANGED <<run, store, persisted, mainVars, netVars, batchIdx, steps, r,
                 grad, applyIdx, produced, applied, trainLock,
                 convVars>>

\* main.go:109-114: roller.Rollout(envs...), must(err), steps +=, append
TrainRollout ==
  /\ proc = "running" /\ tpc = "rollout"
  /\ \E err \in BOOLEAN :
       IF must(err)
         THEN /\ proc' = "panicked"
              /\ rolloutErr' = TRUE
              /\ UNCHANGED <<steps, rollouts, tpc>>
         ELSE /\ \E n \in RolloutSizes :
                   /\ steps' = steps + n
                   /\ rollouts' = Append(rollouts, n)
              /\ tpc' = "gather"
              /\ UNCHANGED <<proc, rolloutErr>>
  /\ UNCHANGED <<run, store, persisted, mainVars, netVars, batchIdx, r, grad,
                 applyIdx, produced, applied, trainLock,
                 convVars>>

\* TrainPack that goes back to gathering after the batch is packed
TrainPackThenGather ==
  /\ proc = "running" /\ tpc = "pack"
  /\ r' = PackRolloutSets(rollouts)
  /\ tpc' = "gather"
  /\ UNCHANGED <<procVars, mainVars, netVars, batchIdx, rollouts, steps, grad,
                 applyIdx, produced, applied, rolloutErr, trainLock,
                 convVars>>

\* main.go:117-122: r := anyrl.PackRolloutSets(rollouts)
TrainPack ==
  /\ proc = "running" /\ tpc = "pack"
  /\ r' = PackRolloutSets(rollouts)
  /\ tpc' = "optimize"
  /\ UNCHANGED <<procVars, mainVars, netVars, batchIdx, rollouts, steps, grad,
                 applyIdx, produced, applied, rolloutErr, trainLock,
                 convVars>>

\* TrainRun that steps the first parameter while it computes the gradient
TrainRunInPlace ==
  /\ proc = "running" /\ tpc = "optimize"
  /\ grad' = Gradient
  /\ produced' = produced + 1
  /\ policy' = [policy EXCEPT !.params[1] = @ + Gradient[1]]
  /\ tpc' = "lock"
  /\ UNCHANGED <<procVars, mainVars, loaded, initParams, batchIdx, rollouts,
                 steps, r, applyIdx, applied, rolloutErr, trainLock,
                 convVars>>

\* main.go:124-126: grad := trpo.Run(r)
TrainRun ==
  /\ proc = "running" /\ tpc = "optimize"
  /\ grad' = Gradient
  /\ produced' = produced + 1
  /\ tpc' = "lock"
  /\ UNCHANGED <<procVars, mainVars, netVars, batchIdx, rollouts, steps, r,
                 applyIdx, applied, rolloutErr, trainLock,
                 convVars>>

\* TrainLock with the call of Lock left out
TrainLockMissing ==
  /\ proc = "running" /\ tpc = "lock"
  /\ applyIdx' = 0
  /\ tpc' = "apply"
  /\ UNCHANGED <<procVars, mainVars, netVars, batchIdx, rollouts, steps, r,
                 grad, produced, applied, rolloutErr, trainLock,
                 convVars>>

\* main.go:127: trainLock.Lock()
TrainLock ==
  /\ proc = "running" /\ tpc = "lock"
  /\ trainLock = "free"
  /\ trainLock' = "train"
  /\ applyIdx' = 0
  /\ tpc' = "apply"
  /\ UNCHANGED <<procVars, mainVars, netVars, batchIdx, rollouts, steps, r,
                 grad, produced, applied, rolloutErr,
                 convVars>>

\* TrainAddToVars with Unlock called before the update instead of after it
TrainAddToVarsUnlocked ==
  /\ proc = "running" /\ tpc = "apply"
  /\ applyIdx < NumParams
  /\ policy' = [policy EXCEPT !.params[applyIdx + 1] = @ + grad[applyIdx + 1]]
  /\ applyIdx' = applyIdx + 1
  /\ trainLock' = "free"
  /\ IF applyIdx + 1 = NumParams
       THEN applied' = applied + 1 /\ tpc' = "unlock"
       ELSE UNCHANGED <<applied, tpc>>
  /\ UNCHANGED <<procVars, mainVars, loaded, initParams, batchIdx, rollouts,
                 steps, r, grad, produced, rolloutErr,
                 convVars>>

\* main.go:133: grad.AddToVars() adds the update to one parameter after the
\* other
TrainAddToVars ==
  /\ proc = "running" /\ tpc = "apply"
  /\ applyIdx < NumParams
  /\ policy' = [policy EXCEPT !.params[applyIdx + 1] = @ + grad[applyIdx + 1]]
  /\ applyIdx' = applyIdx + 1
  /\ IF applyIdx + 1 = NumParams
       THEN applied' = applied + 1 /\ tpc' = "unlock"
       ELSE UNCHANGED <<applied, tpc>>
  /\ UNCHANGED <<procVars, mainVars, loaded, initParams, batchIdx, rollouts,
                 steps, r, grad, produced, rolloutErr, trainLock,
                 convVars>>

\* TrainUnlock with the call of Unlock left out
TrainUnlockMissing ==
  /\ proc = "running" /\ tpc = "unlock"
  /\ batchIdx' = batchIdx + 1
  /\ rollouts' = <<>>
  /\ steps' = 0
  /\ r' = NoBatch
  /\ grad' = NoGrad
  /\ tpc' = "loop"
  /\ UNCHANGED <<procVars, mainVars, netVars, applyIdx, produced, applied,
                 rolloutErr, trainLock,
                 convVars>>

\* main.go:134-135,102: trainLock.Unlock(); the iteration ends (rollouts,
\* steps, r and grad go out of scope) and batchIdx++
TrainUnlock ==
  /\ proc = "running" /\ tpc = "unlock"
  /\ trainLock' = "free"
  /\ batchIdx' = batchIdx + 1
  /\ rollouts' = <<>>
  /\ steps' = 0
  /\ r' = NoBatch
  /\ grad' = NoGrad
  /\ tpc' = "loop"
  /\ UNCHANGED <<procVars, mainVars, netVars, applyIdx, produced, applied,
                 rolloutErr,
                 convVars>>

\* ------------------------------------------------------------------------
\* The operator starts the program again after it has ended; only the files
\* survive
\* ------------------------------------------------------------------------
Restart ==
  /\ proc # "running"
  /\ run < MaxRuns
  /\ run' = run + 1
  /\ proc' = "running"
  /\ fpc' = "make"
  /\ i' = 0
  /\ sess' = [s \in 1..ParallelEnvs |-> "none"]
  /\ envs' = <<>>
  /\ deferred' = <<>>
  /\ exitKind' = "none"
  /\ policy' = NoPolicy
  /\ loaded' = FALSE
  /\ initParams' = <<>>
  /\ interrupted' = FALSE
  /\ saveBuf' = <<>>
  /\ trainLock' = "free"
  /\ tpc' = "idle"
  /\ batchIdx' = 0
  /\ rollouts' = <<>>
  /\ steps' = 0
  /\ r' = NoBatch
  /\ grad' = NoGrad
  /\ applyIdx' = 0
  /\ produced' = 0
  /\ applied' = 0
  /\ rolloutErr' = FALSE
  /\ UNCHANGED <<store, persisted, convVars>>

Main ==
  \/ MainMake \/ MainGymEnv \/ MainLoadPolicy \/ MainStartTraining
  \/ MainReceiveSignal \/ MainLock \/ MainSaveRead \/ MainSaveWrite
  \/ MainDeferClose \/ MainExit

Train ==
  \/ TrainBeginBatch \/ TrainGatherTest \/ TrainRollout \/ TrainPack
  \/ TrainRun \/ TrainLock \/ TrainAddToVars \/ TrainUnlock

\* one run of the program
RunNext == Main \/ Train

Next == RunNext \/ Restart

Spec == Init /\ [][Next]_vars

\* Scheduling: a goroutine that can run does run, and a goroutine waiting in
\* Lock gets the mutex when it is released again and again (sync.Mutex hands
\* the mutex to a starving waiter). The signal may never come. One run of
\* the program is followed.
Fairness ==
  /\ WF_vars(Train)
  /\ WF_vars(MainMake \/ MainGymEnv \/ MainLoadPolicy \/ MainStartTraining
               \/ MainSaveRead \/ MainSaveWrite \/ MainDeferClose
               \/ MainExit)
  /\ SF_vars(MainLock)

FairSpec == Init /\ [][RunNext]_vars /\ Fairness

\* ------------------------------------------------------------------------
\* loadOrCreateNetwork followed step by step, with the weights of the
\* feature extractor (main.go:147-209)
\* ------------------------------------------------------------------------

\* main.go:155: Input(w=80, h=105, d=2)
InputDepth == 2

\* filters of the first Conv layer (n=16 in the markup; the second has n=32,
\* here one more than the first)
ConvFilters == 2

\* spatial positions of one filter (w=4, h=4 in the markup)
ConvArea == 2

\* inputs and outputs of the FC layer (out=128 in the markup)
FCIn == 2
FCOut == 2

\* initial weights range over -WeightRange..WeightRange, in units of
\* 1/ConvArea for a Conv layer and of 1/FCIn for the FC layer, so that the
\* means the projection subtracts are whole numbers of units
WeightRange == 1

\* anyvec.SumRows: the sum of the rows of a row-major matrix with cols columns
SumRows(v, cols) ==
  [c \in 1..cols |->
     SumSeq([rw \in 1..(Len(v) \div cols) |-> v[(rw - 1) * cols + c]])]

\* anyvec.SumCols: the sum of the columns of a row-major matrix with rows rows
SumCols(v, rows) ==
  [rw \in 1..rows |->
     SumSeq([c \in 1..(Len(v) \div rows) |->
               v[(rw - 1) * (Len(v) \div rows) + c]])]

\* Vector.Scale by the number num/den
Scale(v, num, den) == [j \in 1..Len(v) |-> (v[j] * num) \div den]

\* anyvec.AddRepeated: v[j] += v1[j % len(v1)]
AddRepeated(v, v1) ==
  [j \in 1..Len(v) |-> v[j] + v1[((j - 1) % Len(v1)) + 1]]

\* anyvec.AddChunks: chunk k of v gets scalers[k] added
AddChunks(v, scalers) ==
  [j \in 1..Len(v) |->
     v[j] + scalers[((j - 1) \div (Len(v) \div Len(scalers))) + 1]]

ConvLayer(w, inDepth, n) ==
  [kind |-> "Conv", weights |-> w, biases |-> ConstSeq(n, 0),
   InputDepth |-> inDepth, FilterCount |-> n, InCount |-> 0, OutCount |-> 0]

FCLayer(w, inCount, outCount) ==
  [kind |-> "FC", weights |-> w, biases |-> ConstSeq(outCount, 0),
   InputDepth |-> 0, FilterCount |-> 0, InCount |-> inCount,
   OutCount |-> outCount]

\* Linear(scale=0.01): one scaler (in units of 0.01) and one bias
LinearLayer ==
  [kind |-> "Linear", weights |-> <<1>>, biases |-> <<0>>,
   InputDepth |-> 0, FilterCount |-> 0, InCount |-> 0, OutCount |-> 0]

TanhLayer ==
  [kind |-> "Tanh", weights |-> <<>>, biases |-> <<>>,
   InputDepth |-> 0, FilterCount |-> 0, InCount |-> 0, OutCount |-> 0]

\* a vector of len initial weights, each a multiple of unit
InitWeights(a, b, len, unit) ==
  [j \in 1..len |->
     unit * (((a * j + b) % (2 * WeightRange + 1)) - WeightRange)]

\* the layers anyconv.FromMarkup builds from the markup of main.go:154-165
Markup(w1, w2, w3) ==
  << LinearLayer,
     ConvLayer(w1, InputDepth, ConvFilters), TanhLayer,
     ConvLayer(w2, ConvFilters, ConvFilters + 1), TanhLayer,
     FCLayer(w3, FCIn, FCOut), TanhLayer >>

\* projectOutSolidColors whose Conv case divides by filterSize
projectOutSolidColorsBySize(layer) ==
  CASE layer.kind = "Conv" ->
         LET filters == layer.weights
             inDepth == layer.InputDepth
             numFilters == layer.FilterCount
             filterSize == Len(filters) \div numFilters
             filter(f) == SubSeq(filters, f * filterSize + 1,
                                  (f + 1) * filterSize)
             projected(f) ==
               AddRepeated(filter(f),
                 Scale(SumRows(filter(f), inDepth), -1, filterSize))
         IN [layer EXCEPT !.weights =
               [j \in 1..Len(filters) |->
                  projected((j - 1) \div filterSize)
                    [((j - 1) % filterSize) + 1]]]
    [] layer.kind = "FC" ->
         [layer EXCEPT !.weights =
            AddChunks(layer.weights,
              Scale(SumCols(layer.weights, layer.OutCount), -1,
                    layer.InCount))]
    [] OTHER -> layer

\* main.go:189-209: projectOutSolidColors
projectOutSolidColors(layer) ==
  CASE layer.kind = "Conv" ->
         LET filters == layer.weights
             inDepth == layer.InputDepth
             numFilters == layer.FilterCount
             filterSize == Len(filters) \div numFilters
             filter(f) == SubSeq(filters, f * filterSize + 1,
                                  (f + 1) * filterSize)
             projected(f) ==
               AddRepeated(filter(f),
                 Scale(SumRows(filter(f), inDepth), -1,
                       filterSize \div inDepth))
         IN [layer EXCEPT !.weights =
               [j \in 1..Len(filters) |->
                  projected((j - 1) \div filterSize)
                    [((j - 1) % filterSize) + 1]]]
    [] layer.kind = "FC" ->
         [layer EXCEPT !.weights =
            AddChunks(layer.weights,
              Scale(SumCols(layer.weights, layer.OutCount), -1,
                    layer.InCount))]
    [] OTHER -> layer

\* main is about to call loadOrCreateNetwork: the pool is complete
NetInit ==
  /\ run = 1
  /\ proc = "running"
  /\ \E c \in InitCheckpoints :
       /\ store = [k \in Keys |->
                    IF k = NetworkSaveFile THEN c.file ELSE FileMissing]
       /\ persisted = c.net
  /\ fpc = "load"
  /\ i = ParallelEnvs
  /\ sess = [s \in 1..ParallelEnvs |-> "open"]
  /\ envs = [k \in 1..ParallelEnvs |->
               [client |-> k, pre |-> k, valid |-> TRUE]]
  /\ deferred = [k \in 1..ParallelEnvs |-> ParallelEnvs + 1 - k]
  /\ exitKind = "none"
  /\ policy = NoPolicy
  /\ loaded = FALSE
  /\ initParams = <<>>
  /\ interrupted = FALSE
  /\ saveBuf = <<>>
  /\ trainLock = "free"
  /\ tpc = "idle"
  /\ batchIdx = 0
  /\ rollouts = <<>>
  /\ steps = 0
  /\ r = NoBatch
  /\ grad = NoGrad
  /\ applyIdx = 0
  /\ produced = 0
  /\ applied = 0
  /\ rolloutErr = FALSE
  /\ netpc = "call"
  /\ net = <<>>
  /\ li = 0

\* main.go:148-153: serializer.LoadAny; the loaded network is returned as is
NetLoadAny ==
  /\ fpc = "load" /\ netpc = "call"
  /\ IF ~LoadErr(store[NetworkSaveFile])
       THEN /\ policy' = Deserialize(store[NetworkSaveFile])
            /\ loaded' = TRUE
            /\ initParams' = policy'.params
            /\ fpc' = "start"
            /\ netpc' = "returned"
       ELSE /\ netpc' = "markup"
            /\ UNCHANGED <<policy, loaded, initParams, fpc>>
  /\ UNCHANGED <<procVars, i, sess, envs, deferred, exitKind, interrupted,
                 saveBuf, trainVars, trainLock, net, li>>

\* main.go:154-168: anyconv.FromMarkup builds the layers, with random
\* initial weights
NetFromMarkup ==
  /\ fpc = "load" /\ netpc = "markup"
  /\ \E a1, b1, a2, b2, a3, b3 \in 0..(2 * WeightRange) :
       net' = Markup(
         InitWeights(a1, b1, ConvFilters * ConvArea * InputDepth, ConvArea),
         InitWeights(a2, b2, (ConvFilters + 1) * ConvArea * ConvFilters,
                     ConvArea),
         InitWeights(a3, b3, FCOut * FCIn, FCIn))
  /\ li' = 0
  /\ netpc' = "setup"
  /\ UNCHANGED <<procVars, mainVars, netVars, trainVars, trainLock>>

\* main.go:211-220: boostBiases (called from a comment only, main.go:184)
boostBiases(layer) ==
  CASE layer.kind \in {"Conv", "FC"} ->
         [layer EXCEPT !.biases = [j \in 1..Len(@) |-> @[j] + 1]]
    [] OTHER -> layer

\* NetSetupLayer with the call of boostBiases not commented out
NetSetupLayerBoost ==
  /\ fpc = "load" /\ netpc = "setup"
  /\ li < Len(net)
  /\ net' = [net EXCEPT ![li + 1] =
                boostBiases(projectOutSolidColors(net[li + 1]))]
  /\ li' = li + 1
  /\ UNCHANGED <<procVars, mainVars, netVars, trainVars, trainLock, netpc>>

\* main.go:181-185: one iteration of the loop of setupVisionLayers
NetSetupLayer ==
  /\ fpc = "load" /\ netpc = "setup"
  /\ li < Len(net)
  /\ net' = [net EXCEPT ![li + 1] = projectOutSolidColors(net[li + 1])]
  /\ li' = li + 1
  /\ UNCHANGED <<procVars, mainVars, netVars, trainVars, trainLock, netpc>>

\* main.go:169-177,186: setupVisionLayers returns and the stack is built
\* around the feature extractor
NetReturnStack ==
  /\ fpc = "load" /\ netpc = "setup"
  /\ li = Len(net)
  /\ policy' = FreshNetwork
  /\ loaded' = FALSE
  /\ initParams' = policy'.params
  /\ fpc' = "start"
  /\ netpc' = "returned"
  /\ UNCHANGED <<procVars, i, sess, envs, deferred, exitKind, interrupted,
                 saveBuf, trainVars, trainLock, net, li>>

NetNext == NetLoadAny \/ NetFromMarkup \/ NetSetupLayer \/ NetReturnStack

SpecNet == NetInit /\ [][NetNext]_vars

\* ------------------------------------------------------------------------
\* Properties
\* ------------------------------------------------------------------------

SaveInProgress == proc = "running" /\ fpc = "save"
ApplyInProgress == proc = "running" /\ tpc = "apply"

\* C1: a checkpoint save and an application of a gradient are never in
\* progress at the same time, and every parameter value the save has read is
\* the value after a whole number of completed updates.
C1_SaveExcludesUpdate ==
  /\ ~(SaveInProgress /\ ApplyInProgress)
  /\ SaveInProgress =>
       \A k \in DOMAIN saveBuf : saveBuf[k] = initParams[k] + applied

\* C1 witness: the save has read every parameter after at least one update,
\* while the training goroutine waits for the lock with its next gradient.
C1_Witness ==
  /\ SaveInProgress /\ Len(saveBuf) = NumParams
  /\ applied >= 1 /\ tpc = "lock"

\* C2 as claimed: while the gradient is being computed, or is computed and
\* not yet applied, the training goroutine holds trainLock.
C2_LockHeldFromCompute ==
  (proc = "running" /\ tpc \in {"optimize", "lock", "apply"})
     => trainLock = "train"

\* C2 amended: the training goroutine holds trainLock exactly from the return
\* of trainLock.Lock() (after trpo.Run) until Unlock, so throughout the
\* application of the gradient; it does not hold it while the gradient is
\* computed or while it waits for the lock.
C2_LockHeldWhileApplying ==
  tpc \in {"apply", "unlock"} <=> trainLock = "train"

\* C2 witness: the update is half applied and the foreground waits for the
\* lock.
C2_Witness ==
  /\ proc = "running" /\ tpc = "apply" /\ applyIdx = 1 /\ fpc = "lock"

Stage(pc) ==
  CASE pc = "idle" -> "NotStarted"
    [] pc \in {"loop", "gather", "rollout"} -> "Collecting"
    [] pc = "pack" -> "Aggregating"
    [] pc \in {"optimize", "lock"} -> "Optimizing"
    [] pc \in {"apply", "unlock"} -> "Applying"

StageOrder ==
  { <<"NotStarted", "Collecting">>, <<"Collecting", "Aggregating">>,
    <<"Aggregating", "Optimizing">>, <<"Optimizing", "Applying">>,
    <<"Applying", "Collecting">> }

\* one step of a run keeps the stage or moves it to the next one in order;
\* the loop is entered by the go statement only, and batchIdx counts the
\* passages from Applying to Collecting
C4_StageStep ==
  run' = run =>
    /\ Stage(tpc') = Stage(tpc) \/ <<Stage(tpc), Stage(tpc')>> \in StageOrder
    /\ (Stage(tpc) = "NotStarted" /\ Stage(tpc') # "NotStarted")
          => (fpc = "start" /\ tpc' = "loop" /\ batchIdx' = 0)
    /\ batchIdx' = IF Stage(tpc) = "Applying" /\ Stage(tpc') = "Collecting"
                     THEN batchIdx + 1 ELSE batchIdx
    /\ produced' = IF Stage(tpc) = "Optimizing" /\ tpc = "optimize"
                        /\ tpc' # "optimize"
                     THEN produced + 1 ELSE produced

\* gradients produced and applied, by position in iteration batchIdx
C4_Counts ==
  /\ produced = batchIdx + (IF tpc \in {"lock", "apply", "unlock"} THEN 1 ELSE 0)
  /\ applied = batchIdx + (IF tpc = "unlock" THEN 1 ELSE 0)
  /\ (tpc \in {"loop", "gather", "rollout", "pack", "optimize", "lock"})
        => policy.params = [k \in 1..NumParams |-> initParams[k] + batchIdx]
  /\ (tpc \in {"loop", "gather", "rollout", "pack", "optimize"})
        => grad = NoGrad
  /\ (tpc \in {"lock", "apply", "unlock"}) => grad = Gradient

\* C4: the training loop is entered once, every iteration passes through
\* Collecting, Aggregating, Optimizing, Applying in this order, one gradient
\* is produced per iteration and applied once, and iteration batchIdx = k
\* starts with exactly k updates applied to the policy.
C4_StagesInOrder == [][C4_StageStep]_vars /\ [](tpc # "idle" => C4_Counts)

\* C4 witness: the second iteration starts with one update applied.
C4_Witness ==
  /\ proc = "running" /\ tpc = "gather" /\ batchIdx = 1 /\ applied = 1
  /\ rollouts = <<>>

\* all rollout sets of the batch but the last one
Front(sq) == SubSeq(sq, 1, Len(sq) - 1)

\* C5: steps is the sum of NumSteps() of the rollout sets gathered so far
\* (0 when there is none), a rollout is requested only while steps is below
\* BatchSteps, gathering ends only with steps >= BatchSteps, and the packer
\* is handed exactly the gathered rollout sets, in order.
C5_Gathering ==
  tpc # "idle" =>
    /\ steps = SumSeq(rollouts)
    /\ tpc = "rollout" => steps < BatchSteps
    /\ tpc \in {"pack", "optimize", "lock", "apply", "unlock"} =>
         /\ steps >= BatchSteps
         /\ rollouts # <<>>
         /\ SumSeq(Front(rollouts)) < BatchSteps
    /\ r.packed => (r.sets = rollouts /\ r.numSteps = steps)
    /\ tpc \in {"optimize", "lock", "apply", "unlock"} => r.packed

\* C5 witness: a batch that overshoots the target, of three rollout sets one
\* of which is empty, has been packed.
C5_Witness ==
  /\ tpc = "optimize" /\ steps > BatchSteps /\ Len(rollouts) >= 3
  /\ \E k \in DOMAIN rollouts : rollouts[k] = 0

\* C6: once roller.Rollout has returned an error the process is ended: the
\* failed rollout is not collected, and no rollout is collected, no batch
\* packed, no gradient computed and no update applied afterwards.
C6_RolloutErrorIsFatal ==
  [][rolloutErr' =>
       /\ proc' = "panicked"
       /\ UNCHANGED <<rollouts, steps, r, grad, policy, produced, applied,
                      store>>]_vars

\* C6 witness: the error came in the second iteration, with part of the
\* batch gathered.
C6_Witness ==
  /\ rolloutErr /\ proc = "panicked" /\ batchIdx = 1 /\ Len(rollouts) >= 1
  /\ steps < BatchSteps

PoolComplete ==
  /\ Len(envs) = ParallelEnvs
  /\ \A k \in 1..ParallelEnvs :
       /\ sess[k] \in {"open", "closed"}
       /\ envs[k].valid /\ envs[k].client = k

\* gym.Make or anyrl.GymEnv has returned an error
StartupFailed == exitKind = "panic" /\ Len(envs) < ParallelEnvs

\* C7: the policy exists and the training goroutine runs only with all
\* ParallelEnvs sessions established and wrapped; while the pool is not
\* complete no policy is built, no rollout collected, no update applied and
\* no file written; and when establishing a session fails, main only unwinds
\* and the process ends by the panic.
C7_NoPartialPool ==
  /\ []((policy # NoPolicy \/ tpc # "idle") => PoolComplete)
  /\ [][(Len(envs) < ParallelEnvs /\ run' = run) =>
          UNCHANGED <<policy, tpc, rollouts, steps, applied, store,
                      trainLock>>]_vars
  /\ [](StartupFailed =>
          /\ fpc \in {"defers", "done"}
          /\ policy = NoPolicy /\ tpc = "idle" /\ applied = 0
          /\ proc # "exited")
  /\ (StartupFailed ~> (proc = "panicked" /\ StartupFailed))

\* C7 witness: the last of the ParallelEnvs sessions could not be wrapped and
\* the process has ended.
C7_Witness ==
  /\ proc = "panicked" /\ StartupFailed /\ Len(envs) = ParallelEnvs - 1
  /\ sess[ParallelEnvs] = "closed"

\* C8: loadOrCreateNetwork returns the loaded network if and only if LoadAny
\* succeeds and the freshly constructed network otherwise; in both cases main
\* goes on to start the training goroutine, with no panic.
C8_LoadFailureNotFatal ==
  /\ [][(fpc = "load" /\ fpc' # "load") =>
          /\ fpc' = "start" /\ proc' = "running" /\ exitKind' = "none"
          /\ loaded' <=> ~LoadErr(store[NetworkSaveFile])
          /\ loaded' => (/\ policy'.arch = store[NetworkSaveFile].arch
                         /\ policy'.params = store[NetworkSaveFile].params)
          /\ ~loaded' => policy' = FreshNetwork]_vars
  /\ (fpc = "load" ~> tpc # "idle")

\* C8 witness: the file was no checkpoint, and the training goroutine runs
\* on a fresh network.
C8_Witness ==
  /\ run = 1 /\ store[NetworkSaveFile] = FileCorrupt /\ ~loaded
  /\ policy.arch = TemplateArch /\ tpc = "rollout"

\* C9: the checkpoint is written and read under NetworkSaveFile only;
\* whenever that file is a checkpoint it decodes to the network the last
\* successful save was given, and a run that finds it starts with exactly
\* that network, architecture and parameter values.
C9_SaveLoadRoundTrip ==
  /\ store[OtherFile] = FileMissing
  /\ ~LoadErr(store[NetworkSaveFile]) =>
        Deserialize(store[NetworkSaveFile]) = persisted
  /\ (fpc = "start" /\ ~LoadErr(store[NetworkSaveFile])) =>
        (loaded /\ policy = persisted)
  /\ exitKind = "return" => (persisted = policy /\ ~LoadErr(store[NetworkSaveFile]))

\* C9 witness: the second run starts with the fresh network of the first run
\* after one update.
C9_Witness ==
  /\ run = 2 /\ fpc = "start" /\ loaded
  /\ policy = [arch |-> TemplateArch, params |-> ConstSeq(NumParams, 1)]

\* the weights of every filter of a Conv layer sum to 0 over the spatial
\* positions of each input channel, so over the whole filter; the weights of
\* every output unit of an FC layer sum to 0 over its InCount inputs
ZeroMean(layer) ==
  CASE layer.kind = "Conv" ->
         LET fs == Len(layer.weights) \div layer.FilterCount
             area == fs \div layer.InputDepth
         IN \A f \in 0..(layer.FilterCount - 1) :
              /\ \A c \in 1..layer.InputDepth :
                   SumSeq([q \in 1..area |->
                     layer.weights[f * fs + (q - 1) * layer.InputDepth + c]])
                     = 0
              /\ SumSeq(SubSeq(layer.weights, f * fs + 1, (f + 1) * fs)) = 0
    [] layer.kind = "FC" ->
         \A o \in 1..layer.OutCount :
           SumSeq(SubSeq(layer.weights, (o - 1) * layer.InCount + 1,
                         o * layer.InCount)) = 0
    [] OTHER -> TRUE

\* C10: when no checkpoint can be loaded, every Conv and FC layer of the
\* feature extractor of the network loadOrCreateNetwork returns has weights
\* that sum to 0 per output unit (per filter, and per input channel of a
\* filter), and the layers are those of the markup.
C10_FreshNetworkZeroMean ==
  /\ netpc = "setup" => \A k \in 1..li : ZeroMean(net[k])
  /\ (netpc = "returned" /\ ~loaded) =>
        /\ LoadErr(store[NetworkSaveFile])
        /\ [k \in 1..Len(net) |-> net[k].kind] =
             <<"Linear", "Conv", "Tanh", "Conv", "Tanh", "FC", "Tanh">>
        /\ \A k \in 1..Len(net) : ZeroMean(net[k])
        /\ policy = FreshNetwork

\* C10 witness: no file was there, and the network returned has Conv and FC
\* layers with weights that are not all 0.
C10_Witness ==
  /\ netpc = "returned" /\ ~loaded /\ store[NetworkSaveFile] = FileMissing
  /\ \E k \in 1..Len(net) :
       net[k].kind = "Conv" /\ \E j \in DOMAIN net[k].weights :
                                  net[k].weights[j] # 0
  /\ \E k \in 1..Len(net) :
       net[k].kind = "FC" /\ \E j \in DOMAIN net[k].weights :
                                net[k].weights[j] # 0

\* C11: when training starts the pool holds exactly ParallelEnvs slots, each
\* with its own established session and its own PreprocessEnv, no two slots
\* sharing either, and the pool is never changed afterwards.
C11_PoolFixedAndPrivate ==
  /\ [](tpc # "idle" =>
          /\ Len(envs) = ParallelEnvs
          /\ \A k \in 1..ParallelEnvs : sess[envs[k].client] # "none"
          /\ \A j, k \in 1..ParallelEnvs :
               j # k => /\ envs[j].pre # envs[k].pre
                        /\ envs[j].client # envs[k].client)
  /\ [][(tpc # "idle" /\ run' = run) => envs' = envs]_vars

\* C11 witness: the training goroutine is in a rollout over the complete
\* pool, in its second iteration.
C11_Witness ==
  /\ proc = "running" /\ tpc = "rollout" /\ batchIdx = 1
  /\ Len(envs) = ParallelEnvs /\ envs[ParallelEnvs].pre = ParallelEnvs

\* C12 as claimed: when the process has ended, on whatever way, no session
\* that was established is still open; and after an interruption no session
\* is closed before the checkpoint save has completed.
C12_SessionsClosedAtShutdown ==
  /\ proc # "running" => \A k \in 1..ParallelEnvs : sess[k] # "open"
  /\ (interrupted /\ \E k \in 1..ParallelEnvs : sess[k] = "closed")
        => (fpc \in {"defers", "done"} /\ exitKind # "none")

\* C13 as claimed: no rollout is in progress, or started, while a session
\* of the pool is closed.
C13_NoRolloutOnClosedSession ==
  ~(/\ proc = "running" /\ tpc = "rollout"
    /\ \E k \in 1..ParallelEnvs : sess[k] = "closed")

\* C14: once the foreground holds trainLock it keeps it, so the training
\* goroutine never enters the Applying stage again and no update is applied
\* during or after the save; the checkpoint written holds the final
\* parameter values, those after a whole number of completed updates.
C14_SaveIsFinal ==
  /\ [][(trainLock = "main" /\ run' = run) =>
          /\ trainLock' = "main"
          /\ policy' = policy /\ applied' = applied
          /\ Stage(tpc') # "Applying"]_vars
  /\ [](exitKind = "return" =>
          /\ store[NetworkSaveFile] = Serialize(policy)
          /\ policy.params =
               [k \in 1..NumParams |-> initParams[k] + applied])

\* C14 witness: the checkpoint is written after one update, main is closing
\* the sessions, and the training goroutine waits in Lock with the next
\* gradient.
C14_Witness ==
  /\ proc = "running" /\ exitKind = "return" /\ fpc = "defers"
  /\ applied = 1 /\ tpc = "lock" /\ grad = Gradient

\* C15: the parameter values of the policy change only in a step of the
\* training goroutine in the Applying stage, taken while it holds trainLock;
\* no step of the foreground, and no step of Collecting, Aggregating or
\* Optimizing, changes them.
C15_OnlyApplyingWritesParams ==
  [][(run' = run /\ policy # NoPolicy /\ policy' # policy) =>
       /\ tpc = "apply" /\ Stage(tpc') = "Applying"
       /\ trainLock = "train" /\ trainLock' = "train"
       /\ policy'.arch = policy.arch
       /\ UNCHANGED mainVars]_vars

\* C15 witness: an update is half applied while the foreground waits for the
\* signal.
C15_Witness ==
  /\ proc = "running" /\ tpc = "apply" /\ applyIdx = 1 /\ fpc = "wait"
  /\ policy.params[1] = initParams[1] + applied + 1
  /\ policy.params[NumParams] = initParams[NumParams] + applied

\* every rollout set gathered in this batch has at least one step
NoZeroRollout == \A k \in DOMAIN rollouts : rollouts[k] >= 1

\* C16: as long as no rollout set of the batch is empty, the gathering loop
\* has called roller.Rollout at most BatchSteps times; and a batch that is
\* begun reaches the Applying stage, unless roller.Rollout returns an error
\* or an empty rollout set, or the interruption signal is received.
C16_CollectingCompletes ==
  /\ []((tpc # "idle" /\ NoZeroRollout) => Len(rollouts) <= BatchSteps)
  /\ (tpc = "gather" /\ rollouts = <<>>) ~>
        (tpc = "apply" \/ rolloutErr \/ interrupted \/ ~NoZeroRollout)

\* C16 witness: a batch of BatchSteps rollout sets of one step each is being
\* applied, with no interruption.
C16_Witness ==
  /\ proc = "running" /\ tpc = "apply" /\ ~interrupted
  /\ Len(rollouts) = BatchSteps /\ NoZeroRollout

\* the layers a and b differ in nothing but the weights
SameButWeights(a, b) == [a EXCEPT !.weights = b.weights] = b

\* C17: a step of setupVisionLayers changes nothing but the filter weights
\* of a Conv layer or the weight matrix of an FC layer: every bias vector,
\* every dimension and every layer of another kind stays as it is; the
\* fresh network is returned with the biases FromMarkup gave it, so
\* boostBiases has not been applied.
C17_OnlyWeightsProjected ==
  /\ [][(netpc = "setup" /\ net' # net) =>
          /\ Len(net') = Len(net)
          /\ \A k \in 1..Len(net) :
               /\ SameButWeights(net'[k], net[k])
               /\ net[k].kind \notin {"Conv", "FC"} => net'[k] = net[k]]_vars
  /\ []((netpc = "returned" /\ ~loaded) =>
          /\ net[1] = LinearLayer
          /\ \A k \in 1..Len(net) :
               /\ net[k].kind = "Tanh" => net[k] = TanhLayer
               /\ net[k].kind \in {"Conv", "FC"} =>
                    net[k].biases = ConstSeq(Len(net[k].biases), 0))

\* C17 witness: setupVisionLayers has gone through all layers; the weights
\* of the first Conv layer are no longer any initial weights, and its biases
\* are the initial ones.
C17_Witness ==
  /\ netpc = "setup" /\ li = Len(net)
  /\ \A a, b \in 0..(2 * WeightRange) :
       net[2].weights #
         InitWeights(a, b, ConvFilters * ConvArea * InputDepth, ConvArea)
  /\ net[2].biases = ConstSeq(ConvFilters, 0)
  /\ net[1] = LinearLayer

====
